---- MODULE Spec2Model ----
(***************************************************************************)
(* Model of the inceptiondb Go driver: the JSON-Lines stream reader        *)
(* (JSONStream: newJSONStream, Close, Next) and the generic typed iterator *)
(* Iterate (Spec); the request encoders encodeJSONPayload,                 *)
(* encodeJSONObject and encodeQueryRequest (SpecEncode); the JSON codec of *)
(* Index and CreateIndexRequest (SpecIndex); the client's do and           *)
(* parseErrorResponse (SpecClient). encoding/json, errors.Is and           *)
(* TrimSpace are modelled by what they do.                                 *)
(***************************************************************************)
EXTENDS Integers, Sequences, FiniteSets, TLC

(* ---------------------------------------------------------------------- *)
(* Bounds                                                                  *)
(* ---------------------------------------------------------------------- *)

\* longest response body, counted in JSON values
MaxLen == 3

(* ---------------------------------------------------------------------- *)
(* Error values                                                            *)
(* ---------------------------------------------------------------------- *)

\* the nil error
NoErr == "nil"

\* io.EOF and io.ErrUnexpectedEOF, two distinct sentinel values
EOF == "io.EOF"
ErrUnexpectedEOF == "io.ErrUnexpectedEOF"

\* the errors encoding/json reports for malformed input and for a value
\* that does not fit the destination type
SyntaxError == "json.SyntaxError"
UnmarshalTypeError == "json.UnmarshalTypeError"

\* var ErrStopIteration = errors.New("driver: stop iteration")
ErrStopIteration == "ErrStopIteration"

\* errors a callback may return besides ErrStopIteration:
\*   WrappedStop  fmt.Errorf("%w", ErrStopIteration): another value, whose
\*                Unwrap chain holds ErrStopIteration
\*   SameTextErr  errors.New("driver: stop iteration"): another value with
\*                the same text and no Unwrap chain
\*   CallbackErr  an unrelated error
WrappedStop == "WrappedStop"
SameTextErr == "SameTextErr"
CallbackErr == "CallbackErr"

\* the errors Iterate and Next create for a nil receiver or callback
ErrNilStream == "nil stream"
ErrNilCallback == "nil iterator callback"

\* a failure of resp.Body.Close()
BodyCloseErr == "BodyCloseErr"

\* err.Error()
Message(err) ==
  IF err \in {ErrStopIteration, WrappedStop, SameTextErr}
  THEN "driver: stop iteration"
  ELSE err

\* errors.Unwrap(err); "none" when err wraps nothing
Unwrap(err) == IF err = WrappedStop THEN ErrStopIteration ELSE "none"

\* errors.Is compared by message text instead of by value
RECURSIVE errorsIs_byText(_, _)
errorsIs_byText(err, target) ==
  \/ Message(err) = Message(target)
  \/ Unwrap(err) # "none" /\ errorsIs_byText(Unwrap(err), target)

\* errors.Is(err, target): err or an error in its Unwrap chain is the
\* value target
RECURSIVE errorsIsChain(_, _)
errorsIsChain(err, target) ==
  \/ err = target
  \/ Unwrap(err) # "none" /\ errorsIsChain(Unwrap(err), target)

errorsIs(err, target) == errorsIsChain(err, target)

(* ---------------------------------------------------------------------- *)
(* The response body                                                       *)
(* ---------------------------------------------------------------------- *)

\* well-formed records that decode into the destination type
Docs == {"d1", "d2"}

\* a well-formed JSON value of the wrong type for the destination
BadType == "badType"
\* bytes that are not JSON
BadSyntax == "badSyntax"
\* a JSON value cut short by the end of the body
Truncated == "truncated"

Items == Docs \cup {BadType, BadSyntax, Truncated}

\* sequences over S of length at most n
SeqUpTo(S, n) == UNION {[1..k -> S] : k \in 0..n}

\* bodies: a truncated value can only be the last thing in a body
Bodies ==
  {b \in SeqUpTo(Items, MaxLen) :
     \A i \in 1..Len(b) : b[i] = Truncated => i = Len(b)}

\* what resp.Body.Close() may return
CloseResults == {NoErr, EOF, BodyCloseErr}

(* ---------------------------------------------------------------------- *)
(* State                                                                   *)
(* ---------------------------------------------------------------------- *)

VARIABLES
  body,      \* resp.Body: the JSON values the server sent, in order
  closeErr,  \* the value resp.Body.Close() returns
  stream,    \* the JSONStream: closed flag, decoder position and sticky
             \* error, number of Body.Close and of Decode calls so far
  op,        \* the last call made on the stream and what it returned
  enc,       \* the last call of a request encoder: its payload and result
  idx,       \* the last call of the Index / CreateIndexRequest JSON codec
  req        \* the client, the last request it sent and the outcome

vars == <<body, closeErr, stream, op, enc, idx, req>>

\* the value of a variable in the specifications that do not use it
Idle == [fn |-> "none"]

\* the two handles a caller may hold: a nil *JSONStream or the stream
NilHandle == "nil"
TheStream == "s"
Handles == {NilHandle, TheStream}

\* what a callback returns
CallbackResults == {NoErr, ErrStopIteration, WrappedStop, SameTextErr, CallbackErr}

\* a callback: its result on the 1st, 2nd, ... invocation of one Iterate
\* call. Iterate returns at the first result that is not nil, so a callback
\* is told apart only by that result and the invocation it comes at
Callbacks ==
  {f \in [1..MaxLen -> CallbackResults] :
     \A i \in 1..MaxLen : \A j \in 1..MaxLen :
        (i < j /\ f[i] # NoErr) => f[j] = f[i]}

NoCallback == [i \in 1..MaxLen |-> NoErr]

\* newJSONStream(resp)
newJSONStream ==
  [closed |-> FALSE, cursor |-> 0, decErr |-> NoErr,
   bodyCloses |-> 0, decodes |-> 0]

(* ---------------------------------------------------------------------- *)
(* JSONStream.Close                                                        *)
(* ---------------------------------------------------------------------- *)

\* Close without the closed guard
Close_noGuard(h, st) ==
  IF h = NilHandle
  THEN [st |-> st, ret |-> NoErr]
  ELSE [st |-> [st EXCEPT !.closed = TRUE, !.bodyCloses = @ + 1],
        ret |-> closeErr]

Close(h, st) ==
  IF h = NilHandle \/ st.closed
  THEN [st |-> st, ret |-> NoErr]
  ELSE [st |-> [st EXCEPT !.closed = TRUE, !.bodyCloses = @ + 1],
        ret |-> closeErr]

(* ---------------------------------------------------------------------- *)
(* json.Decoder.Decode                                                     *)
(* ---------------------------------------------------------------------- *)

\* the error Decode reports for an item of the body
DecodeErrOf(item) ==
  CASE item = BadType -> UnmarshalTypeError
    [] item = BadSyntax -> SyntaxError
    [] item = Truncated -> ErrUnexpectedEOF
    [] OTHER -> NoErr

\* s.dec.Decode(v): a sticky error is reported again; at the end of the
\* body io.EOF (sticky); a value of the wrong type is consumed and its
\* error is not sticky; malformed or truncated input is not consumed and
\* its error is sticky
Decode(st) ==
  LET st1 == [st EXCEPT !.decodes = @ + 1] IN
  IF st.decErr # NoErr
  THEN [st |-> st1, err |-> st.decErr, val |-> "none"]
  ELSE IF st.cursor >= Len(body)
  THEN [st |-> [st1 EXCEPT !.decErr = EOF], err |-> EOF, val |-> "none"]
  ELSE LET item == body[st.cursor + 1] IN
       CASE item \in Docs ->
              [st |-> [st1 EXCEPT !.cursor = @ + 1], err |-> NoErr, val |-> item]
         [] item = BadType ->
              [st |-> [st1 EXCEPT !.cursor = @ + 1],
               err |-> DecodeErrOf(item), val |-> "none"]
         [] OTHER ->
              [st |-> [st1 EXCEPT !.decErr = DecodeErrOf(item)],
               err |-> DecodeErrOf(item), val |-> "none"]

(* ---------------------------------------------------------------------- *)
(* JSONStream.Next                                                         *)
(* ---------------------------------------------------------------------- *)

\* Next without the closed check
Next_noClosedCheck(h, st) ==
  IF h = NilHandle
  THEN [st |-> st, ret |-> ErrNilStream, val |-> "none"]
  ELSE LET d == Decode(st) IN
       IF d.err # NoErr
       THEN IF errorsIs(d.err, EOF)
            THEN [st |-> Close(h, d.st).st, ret |-> EOF, val |-> "none"]
            ELSE [st |-> Close(h, d.st).st, ret |-> d.err, val |-> "none"]
       ELSE [st |-> d.st, ret |-> NoErr, val |-> d.val]

\* Next that leaves the stream open after a decode error
Next_noCloseOnError(h, st) ==
  IF h = NilHandle
  THEN [st |-> st, ret |-> ErrNilStream, val |-> "none"]
  ELSE IF st.closed
  THEN [st |-> st, ret |-> EOF, val |-> "none"]
  ELSE LET d == Decode(st) IN
       IF d.err # NoErr
       THEN IF errorsIs(d.err, EOF)
            THEN [st |-> Close(h, d.st).st, ret |-> EOF, val |-> "none"]
            ELSE [st |-> d.st, ret |-> d.err, val |-> "none"]
       ELSE [st |-> d.st, ret |-> NoErr, val |-> d.val]

\* Next that leaves the stream open at the end of the body
Next_noCloseOnEOF(h, st) ==
  IF h = NilHandle
  THEN [st |-> st, ret |-> ErrNilStream, val |-> "none"]
  ELSE IF st.closed
  THEN [st |-> st, ret |-> EOF, val |-> "none"]
  ELSE LET d == Decode(st) IN
       IF d.err # NoErr
       THEN IF errorsIs(d.err, EOF)
            THEN [st |-> d.st, ret |-> EOF, val |-> "none"]
            ELSE [st |-> Close(h, d.st).st, ret |-> d.err, val |-> "none"]
       ELSE [st |-> d.st, ret |-> NoErr, val |-> d.val]

Next(h, st) ==
  IF h = NilHandle
  THEN [st |-> st, ret |-> ErrNilStream, val |-> "none"]
  ELSE IF st.closed
  THEN [st |-> st, ret |-> EOF, val |-> "none"]
  ELSE LET d == Decode(st) IN
       IF d.err # NoErr
       THEN IF errorsIs(d.err, EOF)
            THEN [st |-> Close(h, d.st).st, ret |-> EOF, val |-> "none"]
            ELSE [st |-> Close(h, d.st).st, ret |-> d.err, val |-> "none"]
       ELSE [st |-> d.st, ret |-> NoErr, val |-> d.val]

(* ---------------------------------------------------------------------- *)
(* Iterate                                                                 *)
(* ---------------------------------------------------------------------- *)

\* the callback-error branch with the close error returned in place of the
\* callback's error
onCallbackError_closeErrWins(h, st, err) ==
  LET c == Close(h, st) IN
  IF errorsIs(err, ErrStopIteration)
  THEN [st |-> c.st,
        ret |-> IF c.ret # NoErr /\ ~errorsIs(c.ret, EOF) THEN c.ret ELSE NoErr]
  ELSE [st |-> c.st, ret |-> IF c.ret # NoErr THEN c.ret ELSE err]

\* the callback-error branch with the stream left open on a deliberate stop
onCallbackError_noCloseOnStop(h, st, err) ==
  IF errorsIs(err, ErrStopIteration)
  THEN [st |-> st, ret |-> NoErr]
  ELSE [st |-> Close(h, st).st, ret |-> err]

\* the callback-error branch with the close error dropped on a deliberate
\* stop
onCallbackError_dropCloseErr(h, st, err) ==
  [st |-> Close(h, st).st,
   ret |-> IF errorsIs(err, ErrStopIteration) THEN NoErr ELSE err]

\* the body of `if err := fn(&item); err != nil`: a deliberate stop closes
\* the stream and returns the close error unless it is nil or io.EOF; any
\* other error closes the stream, drops the close error and is returned
onCallbackError(h, st, err) ==
  LET c == Close(h, st) IN
  IF errorsIs(err, ErrStopIteration)
  THEN [st |-> c.st,
        ret |-> IF c.ret # NoErr /\ ~errorsIs(c.ret, EOF) THEN c.ret ELSE NoErr]
  ELSE [st |-> c.st, ret |-> err]

\* the decode-error branch with the callback invoked on the zero item
onNextError_deliver(err, calls) ==
  IF errorsIs(err, EOF)
  THEN [ret |-> NoErr, calls |-> calls]
  ELSE [ret |-> err, calls |-> Append(calls, "zero")]

\* the decode-error branch without the io.EOF test
onNextError_noEOFTest(err, calls) == [ret |-> err, calls |-> calls]

\* the body of `if err := s.Next(&item); err != nil`: io.EOF ends the
\* iteration with success, any other error is returned as it is
onNextError(err, calls) ==
  IF errorsIs(err, EOF)
  THEN [ret |-> NoErr, calls |-> calls]
  ELSE [ret |-> err, calls |-> calls]

\* the for loop of Iterate, entered with the items delivered so far
RECURSIVE iterateLoop(_, _, _, _)
iterateLoop(h, fn, st, calls) ==
  LET n == Next(h, st) IN
  IF n.ret # NoErr
  THEN LET e == onNextError(n.ret, calls) IN
       [st |-> n.st, ret |-> e.ret, calls |-> e.calls]
  ELSE LET delivered == Append(calls, n.val)
           err == fn[Len(delivered)] IN
       IF err # NoErr
       THEN LET r == onCallbackError(h, n.st, err) IN
            [st |-> r.st, ret |-> r.ret, calls |-> delivered]
       ELSE iterateLoop(h, fn, n.st, delivered)

\* Iterate that starts decoding before it checks its arguments
Iterate_checkLate(h, fnNil, fn, st) ==
  IF h = NilHandle
  THEN [st |-> st, ret |-> ErrNilStream, calls |-> << >>]
  ELSE IF fnNil
  THEN [st |-> Next(h, st).st, ret |-> ErrNilCallback, calls |-> << >>]
  ELSE iterateLoop(h, fn, st, << >>)

\* Iterate(s, fn)
Iterate(h, fnNil, fn, st) ==
  IF h = NilHandle
  THEN [st |-> st, ret |-> ErrNilStream, calls |-> << >>]
  ELSE IF fnNil
  THEN [st |-> st, ret |-> ErrNilCallback, calls |-> << >>]
  ELSE iterateLoop(h, fn, st, << >>)

(* ---------------------------------------------------------------------- *)
(* The caller: any sequence of Next, Close and Iterate calls               *)
(* ---------------------------------------------------------------------- *)

NoOp ==
  [name |-> "new", recv |-> TheStream, fnNil |-> FALSE, fn |-> NoCallback,
   ret |-> NoErr, val |-> "none", calls |-> << >>, pre |-> newJSONStream]

Init ==
  /\ body \in Bodies
  /\ closeErr \in CloseResults
  /\ stream = newJSONStream
  /\ op = NoOp
  /\ enc = Idle /\ idx = Idle /\ req = Idle

CallNext ==
  \E h \in Handles :
    LET r == Next(h, stream) IN
    /\ stream' = r.st
    /\ op' = [name |-> "Next", recv |-> h, fnNil |-> FALSE, fn |-> NoCallback,
              ret |-> r.ret, val |-> r.val, calls |-> << >>, pre |-> stream]
    /\ UNCHANGED <<body, closeErr, enc, idx, req>>

CallClose ==
  \E h \in Handles :
    LET r == Close(h, stream) IN
    /\ stream' = r.st
    /\ op' = [name |-> "Close", recv |-> h, fnNil |-> FALSE, fn |-> NoCallback,
              ret |-> r.ret, val |-> "none", calls |-> << >>, pre |-> stream]
    /\ UNCHANGED <<body, closeErr, enc, idx, req>>

CallIterate ==
  \E h \in Handles : \E fnNil \in BOOLEAN :
    \E fn \in (IF fnNil THEN {NoCallback} ELSE Callbacks) :
      LET r == Iterate(h, fnNil, fn, stream) IN
      /\ stream' = r.st
      /\ op' = [name |-> "Iterate", recv |-> h, fnNil |-> fnNil, fn |-> fn,
                ret |-> r.ret, val |-> "none", calls |-> r.calls, pre |-> stream]
      /\ UNCHANGED <<body, closeErr, enc, idx, req>>

Next_ == CallNext \/ CallClose \/ CallIterate

Spec == Init /\ [][Next_]_vars

TypeOK ==
  /\ body \in Bodies
  /\ closeErr \in CloseResults
  /\ stream.closed \in BOOLEAN
  /\ stream.cursor \in 0..Len(body)
  /\ stream.bodyCloses \in 0..2
  /\ stream.decodes \in 0..(Len(body) + 1)

(* ---------------------------------------------------------------------- *)
(* Properties                                                              *)
(* ---------------------------------------------------------------------- *)

\* the last call was made through the stream's handle
OnStream(name) == op.name = name /\ op.recv = TheStream

\* the last call was an Iterate with a stream and a callback, on an open
\* stream
Iterated == OnStream("Iterate") /\ ~op.fnNil /\ ~op.pre.closed

\* the records not yet decoded when the last call began
Rest == SubSeq(body, op.pre.cursor + 1, Len(body))

\* the first n records of Rest exist and are well-formed
WellFormed(n) == n <= Len(Rest) /\ \A i \in 1..n : Rest[i] \in Docs

\* the callback returned nil on its first n invocations
NilBefore(n) == \A i \in 1..MaxLen : i <= n => op.fn[i] = NoErr

\* the errors a decode can fail with, io.EOF apart
DecodeErrors == {SyntaxError, UnmarshalTypeError, ErrUnexpectedEOF}

\* C1: Iterate over a stream of n well-formed records with a callback that
\* always returns nil invokes the callback n times, the i-th time with the
\* i-th record, returns nil and leaves the stream closed, the body closed
\* once.
C1_IterateDeliversAllInOrder ==
  (Iterated /\ NilBefore(MaxLen) /\ WellFormed(Len(Rest))) =>
     /\ op.calls = Rest
     /\ op.ret = NoErr
     /\ stream.closed
     /\ stream.bodyCloses = 1

C1_Witness ==
  /\ Iterated /\ NilBefore(MaxLen)
  /\ op.pre = newJSONStream
  /\ body = <<"d1", "d2">>
  /\ op.calls = <<"d1", "d2">>
  /\ op.ret = NoErr

\* C2: when the callback returns ErrStopIteration on the k-th record,
\* Iterate has invoked it exactly k times with the first k records, has
\* closed the stream, and returns nil when closing the body reports no
\* error.
C2_StopEndsIterationWithSuccess ==
  \A k \in 1..MaxLen :
    (Iterated /\ NilBefore(k - 1) /\ op.fn[k] = ErrStopIteration /\ WellFormed(k)) =>
       /\ op.calls = SubSeq(Rest, 1, k)
       /\ stream.closed
       /\ stream.bodyCloses = 1
       /\ stream.cursor = op.pre.cursor + k
       /\ (closeErr = NoErr => op.ret = NoErr)

C2_Witness ==
  /\ Iterated /\ op.fn[1] = ErrStopIteration
  /\ op.pre = newJSONStream
  /\ body = <<"d1", "d2">>
  /\ closeErr = NoErr
  /\ op.calls = <<"d1">>
  /\ op.ret = NoErr
  /\ stream.closed

\* C3: Iterate with a nil stream or a nil callback returns an error and
\* leaves the stream as it was: nothing decoded, the cursor where it was,
\* open or closed as before, the body not closed by the call, the callback
\* not invoked.
C3_NilArgumentsTouchNothing ==
  (op.name = "Iterate" /\ (op.recv = NilHandle \/ op.fnNil)) =>
     /\ op.ret # NoErr
     /\ op.ret = (IF op.recv = NilHandle THEN ErrNilStream ELSE ErrNilCallback)
     /\ stream = op.pre
     /\ op.calls = << >>

C3_Witness ==
  /\ op.name = "Iterate" /\ op.recv = TheStream /\ op.fnNil
  /\ op.ret = ErrNilCallback
  /\ ~stream.closed /\ stream.cursor = 0 /\ stream.decodes = 0
  /\ Len(body) > 0

\* C4: once the stream is closed it stays closed, and every Next call from
\* then on returns io.EOF without a decode and without moving the cursor.
C4_ClosedIsTerminal ==
  [][stream.closed =>
       /\ stream'.closed
       /\ (op'.name = "Next" /\ op'.recv = TheStream) =>
             /\ op'.ret = EOF
             /\ stream'.decodes = stream.decodes
             /\ stream'.cursor = stream.cursor]_vars

C4_Witness ==
  /\ OnStream("Next") /\ op.pre.closed
  /\ op.ret = EOF
  /\ stream.closed
  /\ stream.cursor < Len(body) /\ body[stream.cursor + 1] \in Docs

\* C5: a Next call on an open stream whose decode fails with an error that
\* is not io.EOF returns that error and leaves the stream closed and the
\* body closed once; the Next call that follows returns io.EOF without
\* another decode.
C5_DecodeErrorClosesStream ==
  [][/\ (/\ op'.name = "Next" /\ op'.recv = TheStream
         /\ ~stream.closed
         /\ stream.cursor < Len(body)
         /\ body[stream.cursor + 1] \notin Docs) =>
            /\ op'.ret = DecodeErrOf(body[stream.cursor + 1])
            /\ op'.ret \in DecodeErrors
            /\ stream'.closed
            /\ stream'.bodyCloses = 1
     /\ (/\ OnStream("Next") /\ op.ret \in DecodeErrors
         /\ op'.name = "Next" /\ op'.recv = TheStream) =>
            /\ op'.ret = EOF
            /\ stream'.decodes = stream.decodes
            /\ stream'.cursor = stream.cursor]_vars

C5_Witness ==
  /\ OnStream("Next") /\ ~op.pre.closed
  /\ op.pre.cursor = 1 /\ body = <<"d1", BadType, "d2">>
  /\ op.ret = UnmarshalTypeError
  /\ stream.closed
  /\ stream.bodyCloses = 1

\* C6: the body is closed at most once, and exactly once whenever the
\* stream is closed; Close on a closed stream or through a nil handle
\* returns nil and changes nothing.
C6_BodyClosedExactlyOnce ==
  /\ stream.bodyCloses <= 1
  /\ stream.closed => stream.bodyCloses = 1
  /\ (op.name = "Close" /\ (op.recv = NilHandle \/ op.pre.closed)) =>
        /\ op.ret = NoErr
        /\ stream = op.pre

C6_Witness ==
  /\ OnStream("Close") /\ op.pre.closed
  /\ op.ret = NoErr
  /\ closeErr = BodyCloseErr
  /\ stream.bodyCloses = 1

\* C7: a Next call on an open stream with no record left returns io.EOF
\* and closes the stream, the body being closed by that call; a Close that
\* follows returns nil and changes nothing.
C7_EOFClosesStream ==
  [][/\ (/\ op'.name = "Next" /\ op'.recv = TheStream
         /\ ~stream.closed
         /\ stream.cursor = Len(body)) =>
            /\ op'.ret = EOF
            /\ stream'.closed
            /\ stream.bodyCloses = 0
            /\ stream'.bodyCloses = 1
     /\ (/\ OnStream("Next") /\ op.ret = EOF
         /\ op'.name = "Close" /\ op'.recv = TheStream) =>
            /\ op'.ret = NoErr
            /\ stream' = stream
            /\ stream'.bodyCloses = 1]_vars

C7_Witness ==
  /\ OnStream("Next") /\ ~op.pre.closed
  /\ op.pre.cursor = 2 /\ body = <<"d1", "d2">>
  /\ op.ret = EOF
  /\ stream.closed
  /\ stream.bodyCloses = 1

\* the callback was invoked a k-th time and returned err
CallbackReturned(k, err) ==
  Iterated /\ NilBefore(k - 1) /\ WellFormed(k) /\ op.fn[k] = err

\* C8 as stated: a callback error that is not the value ErrStopIteration
\* closes the stream and is what Iterate returns.
C8_AsStated ==
  \A k \in 1..MaxLen : \A err \in CallbackResults \ {NoErr, ErrStopIteration} :
    CallbackReturned(k, err) =>
       /\ stream.closed
       /\ op.ret = err
       /\ Len(op.calls) = k

\* C8: a callback error that neither is ErrStopIteration nor wraps it
\* closes the stream and is what Iterate returns, whatever closing the body
\* returns; the callback has been invoked k times.
C8_CallbackErrorIsReturned ==
  \A k \in 1..MaxLen : \A err \in {SameTextErr, CallbackErr} :
    CallbackReturned(k, err) =>
       /\ stream.closed
       /\ stream.bodyCloses = 1
       /\ op.ret = err
       /\ op.calls = SubSeq(Rest, 1, k)

C8_Witness ==
  /\ CallbackReturned(2, CallbackErr)
  /\ closeErr = BodyCloseErr
  /\ op.ret = CallbackErr
  /\ Len(op.calls) = 2 /\ Len(body) = 3
  /\ stream.closed

\* C9: when decoding the k-th record fails with an error that is not
\* io.EOF, Iterate returns that error, having invoked the callback with
\* records 1..k-1 and no more, and the stream is closed.
C9_DecodeErrorEndsIteration ==
  \A k \in 1..MaxLen :
    (/\ Iterated /\ NilBefore(k - 1) /\ WellFormed(k - 1)
     /\ k <= Len(Rest) /\ Rest[k] \notin Docs) =>
       /\ op.ret = DecodeErrOf(Rest[k])
       /\ op.ret \in DecodeErrors
       /\ op.calls = SubSeq(Rest, 1, k - 1)
       /\ stream.closed
       /\ stream.bodyCloses = 1

C9_Witness ==
  /\ Iterated /\ NilBefore(MaxLen)
  /\ op.pre = newJSONStream
  /\ body = <<"d1", BadType, "d2">>
  /\ op.ret = UnmarshalTypeError
  /\ op.calls = <<"d1">>
  /\ stream.closed

\* C10 as stated: a callback error with the text of ErrStopIteration that
\* is another value is returned by Iterate as an error.
C10_AsStated ==
  \A k \in 1..MaxLen : \A err \in CallbackResults \ {NoErr} :
    (/\ CallbackReturned(k, err)
     /\ Message(err) = Message(ErrStopIteration)
     /\ err # ErrStopIteration) =>
        op.ret = err

\* C10: a callback error with the text of ErrStopIteration that is another
\* value and does not wrap ErrStopIteration is returned by Iterate as an
\* error; a callback error that Iterate does not return is ErrStopIteration
\* or wraps it.
C10_StopIsByValueNotText ==
  \A k \in 1..MaxLen : \A err \in CallbackResults \ {NoErr} :
    CallbackReturned(k, err) =>
       /\ (/\ Message(err) = Message(ErrStopIteration)
           /\ err # ErrStopIteration
           /\ Unwrap(err) = "none") => op.ret = err
       /\ op.ret # err => (err = ErrStopIteration \/ Unwrap(err) = ErrStopIteration)

C10_Witness ==
  /\ CallbackReturned(1, SameTextErr)
  /\ op.ret = SameTextErr
  /\ closeErr = NoErr
  /\ op.calls = <<"d2">>
  /\ stream.closed

\* C17: when the callback returns ErrStopIteration, Iterate returns what
\* closing the body returned if that is an error other than io.EOF, and nil
\* if closing returned nil or io.EOF.
C17_StopReturnsCloseError ==
  \A k \in 1..MaxLen :
    CallbackReturned(k, ErrStopIteration) =>
       /\ stream.bodyCloses = 1
       /\ closeErr \in {NoErr, EOF} => op.ret = NoErr
       /\ closeErr \notin {NoErr, EOF} => op.ret = closeErr

C17_Witness ==
  /\ CallbackReturned(2, ErrStopIteration)
  /\ closeErr = BodyCloseErr
  /\ op.ret = BodyCloseErr
  /\ op.calls = <<"d1", "d2">>
  /\ stream.closed

(* ---------------------------------------------------------------------- *)
(* Request encoders (client.go)                                            *)
(* ---------------------------------------------------------------------- *)

\* longest raw string, byte slice or reader content, counted in tokens
MaxText == 3

\* Text is a sequence of tokens: white space, the braces, the comma, one
\* object member `"key":value` per key, the literal null, and a token that
\* belongs to no JSON value
Space == " "
Newline == "\n"
WhiteSpace == {Space, Newline}
MemberKeys == {"index", "limit", "patch"}
RawTokens == {Space, "{", "}", "null", "index", "x"}
Texts == SeqUpTo(RawTokens, MaxText)

\* the two bytes {}
EmptyObject == <<"{", "}">>

RECURSIVE TrimLeft(_)
TrimLeft(t) ==
  IF t # << >> /\ Head(t) \in WhiteSpace THEN TrimLeft(Tail(t)) ELSE t

RECURSIVE TrimRight(_)
TrimRight(t) ==
  IF t # << >> /\ t[Len(t)] \in WhiteSpace
  THEN TrimRight(SubSeq(t, 1, Len(t) - 1))
  ELSE t

\* strings.TrimSpace / bytes.TrimSpace
TrimSpace(t) == TrimRight(TrimLeft(t))

\* the Go types a pointer payload may point to; *bytes.Buffer is an
\* io.Reader, the request types are not
RequestTypes == {"FindRequest", "PatchRequest", "RemoveRequest"}
PtrTypes == RequestTypes \cup {"bytes.Buffer"}

\* the members a request value marshals to: the QueryOptions fields are
\* omitempty, PatchRequest.Patch is always written
QueryKeys == {"index", "limit"}
KeysOf(typ) ==
  {K \cup (IF typ = "PatchRequest" THEN {"patch"} ELSE {}) : K \in SUBSET QueryKeys}

\* a payload of static type any
Payload(kind, typ, text, keys) ==
  [kind |-> kind, typ |-> typ, text |-> text, keys |-> keys]

Payloads ==
  {Payload("nil", "none", << >>, {})}
  \cup {Payload("nilptr", t, << >>, {}) : t \in PtrTypes}
  \cup UNION {{Payload("ptr", t, << >>, K) : K \in KeysOf(t)} : t \in RequestTypes}
  \cup {Payload("nilmap", "map", << >>, {})}
  \cup {Payload("map", "map", << >>, K) : K \in SUBSET QueryKeys}
  \cup {Payload(k, "none", t, {}) : k \in {"string", "bytes", "raw", "reader"}, t \in Texts}
  \cup {Payload("chan", "none", << >>, {})}

\* the payload's dynamic type implements io.Reader
IsReader(p) ==
  p.kind = "reader" \/ (p.kind \in {"ptr", "nilptr"} /\ p.typ = "bytes.Buffer")

\* reflect.ValueOf(payload).Kind()
ReflectKind(p) ==
  CASE p.kind \in {"ptr", "nilptr"} -> "Pointer"
    [] p.kind \in {"map", "nilmap"} -> "Map"
    [] p.kind = "chan" -> "Chan"
    [] p.kind \in {"bytes", "raw"} -> "Slice"
    [] p.kind = "string" -> "String"
    [] p.kind = "reader" -> "Struct"
    [] OTHER -> "Invalid"

\* reflect.Value.IsNil()
IsNil(p) == p.kind \in {"nilptr", "nilmap"}

\* the members of an object in the order json.Marshal writes them
KeyOrder == <<"index", "limit", "patch">>

RECURSIVE Members(_, _)
Members(K, i) ==
  IF i > Len(KeyOrder) THEN << >>
  ELSE IF KeyOrder[i] \notin K THEN Members(K, i + 1)
  ELSE LET rest == Members(K, i + 1) IN
       IF rest = << >> THEN <<KeyOrder[i]>> ELSE <<KeyOrder[i], ",">> \o rest

\* json.Marshal(v) of the values that reach it: null for a nil pointer or
\* map, an object for a struct pointer or map, an error for a channel
jsonMarshal(p) ==
  CASE p.kind \in {"nil", "nilptr", "nilmap"} -> [data |-> <<"null">>, err |-> NoErr]
    [] p.kind \in {"ptr", "map"} ->
         [data |-> <<"{">> \o Members(p.keys, 1) \o <<"}">>, err |-> NoErr]
    [] p.kind = "chan" -> [data |-> << >>, err |-> "json.UnsupportedTypeError"]

\* what an encoder returns: no reader (nil), the payload itself ("same")
\* or a new reader over text ("new"), and the error
NoReader == [body |-> "none", text |-> << >>, err |-> NoErr]
NewReader(text) == [body |-> "new", text |-> text, err |-> NoErr]
SameReader(p) == [body |-> "same", text |-> p.text, err |-> NoErr]
Failed(err) == [body |-> "none", text |-> << >>, err |-> err]

\* the default case with the error of json.Marshal swallowed
marshalBody_ignoreErr(p) == NewReader(jsonMarshal(p).data)

\* the default case of both encoders: json.Marshal
marshalBody(p) ==
  LET m == jsonMarshal(p) IN
  IF m.err # NoErr THEN Failed(m.err) ELSE NewReader(m.data)

\* encodeJSONPayload(payload)
encodeJSONPayload(p) ==
  IF p.kind = "nil" THEN NoReader
  ELSE IF IsReader(p) THEN SameReader(p)
  ELSE IF p.kind = "bytes" THEN NewReader(p.text)
  ELSE IF p.kind = "string" THEN NewReader(p.text)
  ELSE IF p.kind = "raw" THEN NewReader(p.text)
  ELSE marshalBody(p)

\* encodeJSONObject that tests a string against "" only
encodeJSONObject_noTrim(p) ==
  IF p.kind = "nil" THEN NewReader(EmptyObject)
  ELSE IF IsReader(p) THEN SameReader(p)
  ELSE IF p.kind \in {"bytes", "raw"} THEN
    IF Len(TrimSpace(p.text)) = 0 THEN NewReader(EmptyObject) ELSE NewReader(p.text)
  ELSE IF p.kind = "string" THEN
    IF p.text = << >> THEN NewReader(EmptyObject) ELSE NewReader(p.text)
  ELSE IF ReflectKind(p) \in {"Map", "Pointer", "Interface"} /\ IsNil(p)
  THEN NewReader(EmptyObject)
  ELSE marshalBody(p)

\* encodeJSONObject(payload); a json.RawMessage is encoded as its bytes
encodeJSONObject(p) ==
  IF p.kind = "nil" THEN NewReader(EmptyObject)
  ELSE IF IsReader(p) THEN SameReader(p)
  ELSE IF p.kind \in {"bytes", "raw"} THEN
    IF Len(TrimSpace(p.text)) = 0 THEN NewReader(EmptyObject) ELSE NewReader(p.text)
  ELSE IF p.kind = "string" THEN
    IF TrimSpace(p.text) = << >> THEN NewReader(EmptyObject) ELSE NewReader(p.text)
  ELSE IF ReflectKind(p) = "Map" /\ IsNil(p) THEN NewReader(EmptyObject)
  ELSE IF ReflectKind(p) \in {"Pointer", "Interface"} /\ IsNil(p)
  THEN NewReader(EmptyObject)
  ELSE marshalBody(p)

\* encodeQueryRequest(payload)
encodeQueryRequest(p) ==
  IF p.kind = "nil" THEN NewReader(EmptyObject)
  ELSE IF ReflectKind(p) \in {"Pointer", "Interface"} /\ IsNil(p)
  THEN NewReader(EmptyObject)
  ELSE encodeJSONObject(p)

\* the other variables of a specification that does not use the stream
StreamIdle ==
  /\ body = << >> /\ closeErr = NoErr
  /\ stream = newJSONStream /\ op = NoOp

InitEncode ==
  /\ enc \in {[fn |-> "none", in |-> p, out |-> NoReader] : p \in Payloads}
  /\ StreamIdle /\ idx = Idle /\ req = Idle

CallEncodeJSONPayload ==
  /\ enc' = [fn |-> "encodeJSONPayload", in |-> enc.in,
             out |-> encodeJSONPayload(enc.in)]
  /\ UNCHANGED <<body, closeErr, stream, op, idx, req>>

CallEncodeJSONObject ==
  /\ enc' = [fn |-> "encodeJSONObject", in |-> enc.in,
             out |-> encodeJSONObject(enc.in)]
  /\ UNCHANGED <<body, closeErr, stream, op, idx, req>>

CallEncodeQueryRequest ==
  /\ enc' = [fn |-> "encodeQueryRequest", in |-> enc.in,
             out |-> encodeQueryRequest(enc.in)]
  /\ UNCHANGED <<body, closeErr, stream, op, idx, req>>

NextEncode ==
  CallEncodeJSONPayload \/ CallEncodeJSONObject \/ CallEncodeQueryRequest

SpecEncode == InitEncode /\ [][NextEncode]_vars

\* text made of white space only (the empty text included)
Blank(t) == \A i \in 1..Len(t) : t[i] \in WhiteSpace

\* text without its white space tokens
RECURSIVE StripSpace(_)
StripSpace(t) ==
  IF t = << >> THEN << >>
  ELSE IF Head(t) \in WhiteSpace THEN StripSpace(Tail(t))
  ELSE <<Head(t)>> \o StripSpace(Tail(t))

\* the text is one JSON value: null, or an object of members separated by
\* commas, with white space anywhere between the tokens
ValidJSON(text) ==
  LET t == StripSpace(text) IN
  \/ t = <<"null">>
  \/ /\ Len(t) >= 2 /\ t[1] = "{" /\ t[Len(t)] = "}"
     /\ LET inner == SubSeq(t, 2, Len(t) - 1) IN
        \/ inner = << >>
        \/ /\ Len(inner) % 2 = 1
           /\ \A i \in 1..Len(inner) :
                IF i % 2 = 1 THEN inner[i] \in MemberKeys ELSE inner[i] = ","

\* an encoder of the object flavour was called
ObjectFlavour == enc.fn \in {"encodeQueryRequest", "encodeJSONObject"}

\* C11: encodeQueryRequest and encodeJSONObject return the two bytes {} and
\* no error for an untyped nil, a nil request pointer, a nil map, and a
\* string or byte slice that is empty or white space only.
C11_AbsentEncodesAsEmptyObject ==
  (/\ ObjectFlavour
   /\ \/ enc.in.kind \in {"nil", "nilmap"}
      \/ enc.in.kind = "nilptr" /\ enc.in.typ \in RequestTypes
      \/ enc.in.kind \in {"string", "bytes"} /\ Blank(enc.in.text)) =>
     enc.out = [body |-> "new", text |-> <<"{", "}">>, err |-> NoErr]

C11_Witness ==
  /\ enc.fn = "encodeQueryRequest"
  /\ enc.in.kind = "string" /\ enc.in.text = <<Space, Space>>
  /\ enc.out.text = <<"{", "}">>
  /\ enc.out.err = NoErr

\* C12 as stated: a nil pointer is encoded like an untyped nil by every
\* encoder: {} by encodeJSONObject and encodeQueryRequest, no reader at all
\* by encodeJSONPayload.
C12_AsStated ==
  (enc.fn # "none" /\ enc.in.kind = "nilptr") =>
     /\ enc.out.err = NoErr
     /\ ObjectFlavour =>
          enc.out.body = "new" /\ enc.out.text = <<"{", "}">>
     /\ enc.fn = "encodeJSONPayload" => enc.out.body = "none"

\* the payload is an Encodable Value: absent, raw bytes, a raw string or a
\* structured value (not an io.Reader)
Encodable == ~IsReader(enc.in)
RawInput == enc.in.kind \in {"string", "bytes", "raw"}

\* an encoder returned a body and no error
Encoded == enc.fn # "none" /\ enc.out.err = NoErr /\ enc.out.body # "none"

\* C13 as stated: every body an encoder returns without error for an
\* Encodable Value is valid JSON.
C13_AsStated ==
  (Encoded /\ Encodable) => ValidJSON(enc.out.text)

\* C13: a body returned without error for an absent or structured value is
\* valid JSON; a raw string or byte input is passed through unchanged and
\* unvalidated (blank input becoming {} in the object flavour), so its body
\* is valid JSON exactly when the input is valid JSON or, in the object
\* flavour, blank.
C13_BodyIsValidJSONUnlessRawInputIsNot ==
  (Encoded /\ Encodable) =>
     /\ ~RawInput => ValidJSON(enc.out.text)
     /\ RawInput =>
          /\ enc.out.text =
               (IF ObjectFlavour /\ Blank(enc.in.text) THEN <<"{", "}">> ELSE enc.in.text)
          /\ ValidJSON(enc.out.text) <=>
               (ValidJSON(enc.in.text) \/ (ObjectFlavour /\ Blank(enc.in.text)))

C13_Witness ==
  /\ enc.fn = "encodeJSONObject"
  /\ enc.in.kind = "string" /\ enc.in.text = <<"{", "index", "}">>
  /\ enc.out.body = "new" /\ enc.out.err = NoErr
  /\ enc.out.text = <<"{", "index", "}">>

(* ---------------------------------------------------------------------- *)
(* Index and CreateIndexRequest JSON codec                                 *)
(* ---------------------------------------------------------------------- *)

\* most keys in an Options map
MaxOptions == 2

\* Go values held in a map[string]any, by dynamic type
GoValue(t, v) == [t |-> t, v |-> v]
GoString(s) == GoValue("string", s)
GoNil == GoValue("nil", "")
GoValues ==
  {GoString("a"), GoValue("int", "1"), GoValue("float64", "1"), GoNil,
   GoValue("chan", "")}

\* JSON values, by JSON type
JSONValue(t, v) == [t |-> t, v |-> v]
JSONValues == {JSONValue("string", "a"), JSONValue("number", "1"), JSONValue("null", "")}

\* json.Marshal of one value: a Go string is a JSON string, an int or a
\* float64 a JSON number, nil is null
ToJSON(g) ==
  CASE g.t = "string" -> JSONValue("string", g.v)
    [] g.t \in {"int", "float64"} -> JSONValue("number", g.v)
    [] g.t = "nil" -> JSONValue("null", "")

\* json.Unmarshal of one value into an any: a JSON string is a Go string,
\* a JSON number a float64, null is nil
FromJSON(j) ==
  CASE j.t = "string" -> GoString(j.v)
    [] j.t = "number" -> GoValue("float64", j.v)
    [] j.t = "null" -> GoNil

\* maps from at most n of the keys K to values in V
MapsOver(K, V, n) ==
  UNION {[D -> V] : D \in {S \in SUBSET K : Cardinality(S) <= n}}

EmptyMap == [k \in {} |-> GoNil]

\* a map[string]any: nil, or the map m
NilOptions == [isNil |-> TRUE, m |-> EmptyMap]
MakeMap(m) == [isNil |-> FALSE, m |-> m]

OptionKeys == {"field", "sparse", "name"}
OptionMaps ==
  {NilOptions} \cup {MakeMap(m) : m \in MapsOver(OptionKeys, GoValues, MaxOptions)}

\* Index and CreateIndexRequest have the same three fields
Names == {"", "a"}
Types == {"", "btree"}
Indexes == [Name : Names, Type : Types, Options : OptionMaps]
ZeroIndex == [Name |-> "", Type |-> "", Options |-> NilOptions]

\* JSON documents: an object with its members, or null, an array, or bytes
\* that are not JSON
Document(kind, m) == [kind |-> kind, m |-> m]
NoDocument == Document("none", EmptyMap)
DocumentKeys == {"name", "type", "field"}
Documents ==
  {Document("object", m) : m \in MapsOver(DocumentKeys, JSONValues, 3)}
  \cup {Document(k, EmptyMap) : k \in {"null", "array", "invalid"}}

\* json.Marshal(m) of a map[string]any
jsonMarshalMap(m) ==
  IF \E k \in DOMAIN m : m[k].t = "chan"
  THEN [data |-> NoDocument, err |-> "json.UnsupportedTypeError"]
  ELSE [data |-> Document("object", [k \in DOMAIN m |-> ToJSON(m[k])]),
        err |-> NoErr]

\* json.Unmarshal(data, &raw) with raw an empty map[string]any
jsonUnmarshalMap(data) ==
  CASE data.kind = "object" ->
         [raw |-> MakeMap([k \in DOMAIN data.m |-> FromJSON(data.m[k])]),
          err |-> NoErr]
    [] data.kind = "null" -> [raw |-> NilOptions, err |-> NoErr]
    [] data.kind = "array" -> [raw |-> MakeMap(EmptyMap), err |-> UnmarshalTypeError]
    [] OTHER -> [raw |-> MakeMap(EmptyMap), err |-> SyntaxError]

\* the map MarshalJSON builds: the fixed fields in fixed, then every option
\* written over them
Flatten(fixed, i) ==
  [k \in fixed \cup DOMAIN i.Options.m |->
     IF k \in DOMAIN i.Options.m THEN i.Options.m[k]
     ELSE IF k = "name" THEN GoString(i.Name) ELSE GoString(i.Type)]

\* Index.MarshalJSON
IndexMarshalJSON(i) == jsonMarshalMap(Flatten({"name", "type"}, i))

\* CreateIndexRequest.MarshalJSON that always writes name and type
CreateIndexRequestMarshalJSON_always(r) ==
  jsonMarshalMap(Flatten({"name", "type"}, r))

\* CreateIndexRequest.MarshalJSON
CreateIndexRequestMarshalJSON(r) ==
  jsonMarshalMap(Flatten((IF r.Name # "" THEN {"name"} ELSE {})
                           \cup (IF r.Type # "" THEN {"type"} ELSE {}), r))

\* m without the keys in K: delete(raw, k)
Delete(m, K) == [k \in (DOMAIN m) \ K |-> m[k]]

\* the Index after the fields are taken from raw
FromRaw(i, raw, rest) ==
  [Name |-> IF "name" \in DOMAIN raw /\ raw["name"].t = "string"
            THEN raw["name"].v ELSE i.Name,
   Type |-> IF "type" \in DOMAIN raw /\ raw["type"].t = "string"
            THEN raw["type"].v ELSE i.Type,
   Options |-> rest]

\* Index.UnmarshalJSON that keeps name and type among the options
IndexUnmarshalJSON_noDelete(i, data) ==
  LET u == jsonUnmarshalMap(data) IN
  IF u.err # NoErr THEN [index |-> i, err |-> u.err]
  ELSE [index |-> FromRaw(i, u.raw.m,
                          IF DOMAIN u.raw.m = {} THEN NilOptions ELSE MakeMap(u.raw.m)),
        err |-> NoErr]

\* Index.UnmarshalJSON that assigns the remaining map even when it is empty
IndexUnmarshalJSON_keepEmpty(i, data) ==
  LET u == jsonUnmarshalMap(data) IN
  IF u.err # NoErr THEN [index |-> i, err |-> u.err]
  ELSE [index |-> FromRaw(i, u.raw.m, MakeMap(Delete(u.raw.m, {"name", "type"}))),
        err |-> NoErr]

\* (*Index).UnmarshalJSON(data)
IndexUnmarshalJSON(i, data) ==
  LET u == jsonUnmarshalMap(data) IN
  IF u.err # NoErr THEN [index |-> i, err |-> u.err]
  ELSE LET rest == Delete(u.raw.m, {"name", "type"}) IN
       [index |-> FromRaw(i, u.raw.m,
                          IF DOMAIN rest = {} THEN NilOptions ELSE MakeMap(rest)),
        err |-> NoErr]

\* idx: index is the Index (or CreateIndexRequest) value at hand and data
\* the document at hand; after a MarshalJSON data is its output and orig
\* the value encoded; after an UnmarshalJSON index is the decoded value,
\* prev the value of the receiver before the call
InitIndex ==
  /\ idx \in {[fn |-> "none", index |-> i, data |-> d, err |-> NoErr,
               orig |-> i, prev |-> i, encodedBy |-> "none"] :
                i \in Indexes, d \in Documents}
  /\ StreamIdle /\ enc = Idle /\ req = Idle

Marshalled(name, r) ==
  /\ idx' = [fn |-> name, index |-> idx.index, data |-> r.data, err |-> r.err,
             orig |-> idx.index, prev |-> idx.index,
             encodedBy |-> IF r.err = NoErr THEN name ELSE "none"]
  /\ UNCHANGED <<body, closeErr, stream, op, enc, req>>

CallIndexMarshalJSON ==
  Marshalled("Index.MarshalJSON", IndexMarshalJSON(idx.index))

CallCreateIndexRequestMarshalJSON ==
  Marshalled("CreateIndexRequest.MarshalJSON",
             CreateIndexRequestMarshalJSON(idx.index))

\* decode the document at hand into a fresh Index or into the Index at hand
CallIndexUnmarshalJSON ==
  /\ idx.data.kind # "none"
  /\ \E target \in {ZeroIndex, idx.index} :
       LET r == IndexUnmarshalJSON(target, idx.data) IN
       idx' = [idx EXCEPT !.fn = "Index.UnmarshalJSON", !.index = r.index,
                          !.err = r.err, !.prev = target]
  /\ UNCHANGED <<body, closeErr, stream, op, enc, req>>

NextIndex ==
  CallIndexMarshalJSON \/ CallCreateIndexRequestMarshalJSON \/ CallIndexUnmarshalJSON

SpecIndex == InitIndex /\ [][NextIndex]_vars

\* the Options of i hold neither the key "name" nor the key "type"
NoReservedKey(i) == DOMAIN i.Options.m \cap {"name", "type"} = {}

\* the output of Index.MarshalJSON of orig was decoded into a fresh Index
RoundTrip ==
  /\ idx.fn = "Index.UnmarshalJSON"
  /\ idx.encodedBy = "Index.MarshalJSON"
  /\ idx.prev = ZeroIndex
  /\ NoReservedKey(idx.orig)

\* a value of a type json.Unmarshal produces in an any
Canonical(g) == g.t \in {"string", "float64", "nil"}

Encoded18(name) ==
  idx.fn = name /\ idx.err = NoErr /\ NoReservedKey(idx.orig)

\* the fixed fields of orig that are not empty
NonEmptyFixed ==
  (IF idx.orig.Name # "" THEN {"name"} ELSE {})
    \cup (IF idx.orig.Type # "" THEN {"type"} ELSE {})

\* C18 as stated: Index.MarshalJSON and CreateIndexRequest.MarshalJSON write
\* "name" iff Name is not empty, "type" iff Type is not empty, and every key
\* of Options.
C18_AsStated ==
  (Encoded18("Index.MarshalJSON") \/ Encoded18("CreateIndexRequest.MarshalJSON")) =>
     /\ idx.data.kind = "object"
     /\ DOMAIN idx.data.m = NonEmptyFixed \cup DOMAIN idx.orig.Options.m

\* C18: CreateIndexRequest.MarshalJSON writes "name" iff Name is not empty,
\* "type" iff Type is not empty, and every key of Options;
\* Index.MarshalJSON writes "name" and "type" always, as empty strings when
\* the fields are empty, and every key of Options.
C18_KeysOfEncodedObject ==
  /\ Encoded18("CreateIndexRequest.MarshalJSON") =>
       /\ idx.data.kind = "object"
       /\ DOMAIN idx.data.m = NonEmptyFixed \cup DOMAIN idx.orig.Options.m
       /\ \A k \in NonEmptyFixed : idx.data.m[k].t = "string" /\ idx.data.m[k].v # ""
  /\ Encoded18("Index.MarshalJSON") =>
       /\ idx.data.kind = "object"
       /\ DOMAIN idx.data.m = {"name", "type"} \cup DOMAIN idx.orig.Options.m
       /\ idx.data.m["name"] = JSONValue("string", idx.orig.Name)
       /\ idx.data.m["type"] = JSONValue("string", idx.orig.Type)

C18_Witness ==
  /\ Encoded18("CreateIndexRequest.MarshalJSON")
  /\ idx.orig.Name = "" /\ idx.orig.Type = "btree"
  /\ DOMAIN idx.orig.Options.m = {"field"}
  /\ DOMAIN idx.data.m = {"type", "field"}

\* a JSON object was decoded into an Index
DecodedObject == idx.fn = "Index.UnmarshalJSON" /\ idx.data.kind = "object"

\* the document holds key k with a string value
HasString(k) == k \in DOMAIN idx.data.m /\ idx.data.m[k].t = "string"

\* C19: decoding a JSON object into an Index does not fail; Name and Type
\* are set from "name" and "type" when these hold strings and are left as
\* they were otherwise; Options never holds "name" or "type" and is nil when
\* no other key exists, else exactly the other keys with their values.
C19_DecodeSplitsFixedFromOptions ==
  DecodedObject =>
     LET rest == (DOMAIN idx.data.m) \ {"name", "type"} IN
     /\ idx.err = NoErr
     /\ idx.index.Name =
          (IF HasString("name") THEN idx.data.m["name"].v ELSE idx.prev.Name)
     /\ idx.index.Type =
          (IF HasString("type") THEN idx.data.m["type"].v ELSE idx.prev.Type)
     /\ DOMAIN idx.index.Options.m \cap {"name", "type"} = {}
     /\ rest = {} => idx.index.Options = NilOptions
     /\ rest # {} =>
          /\ ~idx.index.Options.isNil
          /\ DOMAIN idx.index.Options.m = rest
          /\ \A k \in rest : idx.index.Options.m[k] = FromJSON(idx.data.m[k])

C19_Witness ==
  /\ DecodedObject
  /\ DOMAIN idx.data.m = {"name", "type", "field"}
  /\ idx.data.m["name"].t = "number" /\ idx.data.m["type"].t = "string"
  /\ idx.prev.Name = "a" /\ idx.prev.Type = ""
  /\ idx.index.Name = "a" /\ idx.index.Type = "a"
  /\ DOMAIN idx.index.Options.m = {"field"}

(* ---------------------------------------------------------------------- *)
(* Client: NewClient, do, doJSON, stream and parseErrorResponse            *)
(* ---------------------------------------------------------------------- *)

\* most options passed to NewClient
MaxOpts == 2
\* longest response body, counted in tokens
MaxBody == 2

\* const maxErrorBody = 1 << 20
maxErrorBody == 1048576

\* the options of NewClient: a nil Option or WithAPICredentials(key, secret)
NilOption == [opt |-> "nil", apiKey |-> "", apiSecret |-> ""]
WithAPICredentials(k, s) ==
  [opt |-> "WithAPICredentials", apiKey |-> k, apiSecret |-> s]
ClientOptions ==
  {NilOption} \cup {WithAPICredentials(k, s) : k \in {"", "test-key"},
                                               s \in {"", "test-secret"}}

\* NewClient applies the options in order, skipping nil ones
RECURSIVE applyOptions(_, _)
applyOptions(c, opts) ==
  IF opts = << >> THEN c
  ELSE applyOptions(
         IF Head(opts).opt = "nil" THEN c
         ELSE [apiKey |-> Head(opts).apiKey, apiSecret |-> Head(opts).apiSecret],
         Tail(opts))

\* NewClient(baseURL, opts...) for a well-formed base URL
NewClient(opts) == applyOptions([apiKey |-> "", apiSecret |-> ""], opts)

\* the tokens of a response body: white space, text that is not JSON, and
\* three JSON documents with an "error" object
DocFull == "{\"error\":{\"message\":\"msg\",\"description\":\"desc\"}}"
DocDescOnly == "{\"error\":{\"description\":\"desc\"}}"
DocEmptyErr == "{\"error\":{}}"
ErrorDocs == {DocFull, DocDescOnly, DocEmptyErr}
BodyTokens == {Space, "text"} \cup ErrorDocs
ResponseBodies == SeqUpTo(BodyTokens, MaxBody)

Statuses == {204, 399, 400, 500}

\* what the transport answers: an error and no response, or a response
\* with a status and a body whose reading may fail
NoResponse ==
  [failed |-> TRUE, status |-> 0, data |-> << >>, readErr |-> NoErr]
Responses ==
  {NoResponse}
  \cup [failed : {FALSE}, status : Statuses, data : ResponseBodies,
        readErr : {NoErr, "read error"}]

\* the headers of a request, by name
NoHeaders == [h \in {} |-> ""]
SetHeader(hs, name, value) ==
  [h \in DOMAIN hs \cup {name} |-> IF h = name THEN value ELSE hs[h]]

\* the headers do builds, with the Api-Secret header set from the key
requestHeaders_secretFromKey(c, hasBody, contentType) ==
  LET ct == IF contentType = "" /\ hasBody THEN "application/json" ELSE contentType
      h1 == IF ct # "" THEN SetHeader(NoHeaders, "Content-Type", ct) ELSE NoHeaders
      h2 == IF c.apiKey # "" THEN SetHeader(h1, "Api-Key", c.apiKey) ELSE h1
  IN IF c.apiKey # "" THEN SetHeader(h2, "Api-Secret", c.apiSecret) ELSE h2

\* the headers do builds for a request
requestHeaders(c, hasBody, contentType) ==
  LET ct == IF contentType = "" /\ hasBody THEN "application/json" ELSE contentType
      h1 == IF ct # "" THEN SetHeader(NoHeaders, "Content-Type", ct) ELSE NoHeaders
      h2 == IF c.apiKey # "" THEN SetHeader(h1, "Api-Key", c.apiKey) ELSE h1
  IN IF c.apiSecret # "" THEN SetHeader(h2, "Api-Secret", c.apiSecret) ELSE h2

\* io.ReadAll(io.LimitReader(resp.Body, maxErrorBody))
readLimited(data) ==
  SubSeq(data, 1, IF Len(data) < maxErrorBody THEN Len(data) ELSE maxErrorBody)

\* json.Unmarshal(data, &payload): data must be one JSON document, white
\* space around it allowed
unmarshalErrorPayload(data) ==
  LET t == TrimSpace(data) IN
  IF Len(t) = 1 /\ t[1] \in ErrorDocs
  THEN [err |-> NoErr,
        Message |-> IF t[1] = DocFull THEN <<"msg">> ELSE << >>,
        Description |-> IF t[1] = DocEmptyErr THEN << >> ELSE <<"desc">>]
  ELSE [err |-> SyntaxError, Message |-> << >>, Description |-> << >>]

\* *Error
NewError(status, message, description, data) ==
  [StatusCode |-> status, Message |-> message, Description |-> description,
   Body |-> data]
NoError == NewError(0, << >>, << >>, << >>)

\* parseErrorResponse with the raw body as the message
parseErrorResponse_untrimmed(resp) ==
  LET data == readLimited(resp.data)
      payload == unmarshalErrorPayload(data) IN
  IF resp.readErr # NoErr
  THEN NewError(resp.status, <<resp.readErr>>, << >>, data)
  ELSE IF /\ Len(data) > 0 /\ payload.err = NoErr
          /\ (payload.Message # << >> \/ payload.Description # << >>)
  THEN NewError(resp.status, payload.Message, payload.Description, data)
  ELSE NewError(resp.status, data, << >>, data)

\* parseErrorResponse(resp)
parseErrorResponse(resp) ==
  LET data == readLimited(resp.data)
      payload == unmarshalErrorPayload(data) IN
  IF resp.readErr # NoErr
  THEN NewError(resp.status, <<resp.readErr>>, << >>, data)
  ELSE IF /\ Len(data) > 0 /\ payload.err = NoErr
          /\ (payload.Message # << >> \/ payload.Description # << >>)
  THEN NewError(resp.status, payload.Message, payload.Description, data)
  ELSE NewError(resp.status, TrimSpace(data), << >>, data)

\* what an operation returns
Outcome(kind, e) == [kind |-> kind, error |-> e]

\* Client.do once the request is built: the transport's error, an *Error
\* for a status of 400 or more, else the response
do(resp) ==
  IF resp.failed THEN Outcome("transport error", NoError)
  ELSE IF resp.status >= 400 THEN Outcome("Error", parseErrorResponse(resp))
  ELSE Outcome("response", NoError)

\* Client.stream
stream_(resp) ==
  LET r == do(resp) IN
  IF r.kind # "response" THEN r ELSE Outcome("JSONStream", NoError)

\* Client.doJSON: nothing is decoded without a destination or for a 204;
\* an empty body is not an error; a body that is not JSON, or a document
\* that does not fit the destination's type, is
doJSON(resp, dest) ==
  LET r == do(resp)
      t == TrimLeft(resp.data) IN
  IF r.kind # "response" THEN r
  ELSE IF dest = "nil" \/ resp.status = 204 THEN Outcome("result", NoError)
  ELSE IF t = << >> THEN
    IF resp.readErr # NoErr THEN Outcome("decode error", NoError)
    ELSE Outcome("result", NoError)
  ELSE IF t[1] \in ErrorDocs /\ dest = "object" THEN Outcome("result", NoError)
  ELSE Outcome("decode error", NoError)

\* req: the options the client was built with, the client, what the server
\* will answer, and the last operation with the headers it sent and what it
\* returned
InitClient ==
  /\ \E opts \in SeqUpTo(ClientOptions, MaxOpts) : \E resp \in Responses :
       req = [fn |-> "NewClient", opts |-> opts, client |-> NewClient(opts),
              resp |-> resp, headers |-> NoHeaders, out |-> Outcome("none", NoError)]
  /\ StreamIdle /\ enc = Idle /\ idx = Idle

\* an operation that decodes one JSON result (ListCollections, GetIndex,
\* DropIndex, ...)
CallDoJSON ==
  /\ \E hasBody \in BOOLEAN : \E dest \in {"nil", "object", "array"} :
       req' = [req EXCEPT !.fn = "doJSON",
                          !.headers = requestHeaders(req.client, hasBody, ""),
                          !.out = doJSON(req.resp, dest)]
  /\ UNCHANGED <<body, closeErr, stream, op, enc, idx>>

\* an operation that returns a JSONStream (InsertStream, Find, Patch,
\* Remove)
CallStream ==
  /\ req' = [req EXCEPT !.fn = "stream",
                        !.headers = requestHeaders(req.client, TRUE, "application/json"),
                        !.out = stream_(req.resp)]
  /\ UNCHANGED <<body, closeErr, stream, op, enc, idx>>

NextClient == CallDoJSON \/ CallStream

SpecClient == InitClient /\ [][NextClient]_vars

\* an operation sent a request
Sent == req.fn \in {"doJSON", "stream"}

\* the value WithAPICredentials configured for a field: that of the last
\* such option, the empty string when there is none
Configured(field) ==
  LET creds == {i \in 1..Len(req.opts) : req.opts[i].opt = "WithAPICredentials"} IN
  IF creds = {} THEN ""
  ELSE req.opts[CHOOSE i \in creds : \A j \in creds : j <= i][field]

\* C15: a request carries the Api-Key header exactly when a non-empty key
\* was configured with WithAPICredentials, with that value, and likewise
\* the Api-Secret header; without credentials it carries neither.
C15_CredentialHeaders ==
  Sent =>
     /\ "Api-Key" \in DOMAIN req.headers <=> Configured("apiKey") # ""
     /\ "Api-Key" \in DOMAIN req.headers =>
          req.headers["Api-Key"] = Configured("apiKey")
     /\ "Api-Secret" \in DOMAIN req.headers <=> Configured("apiSecret") # ""
     /\ "Api-Secret" \in DOMAIN req.headers =>
          req.headers["Api-Secret"] = Configured("apiSecret")

C15_Witness ==
  /\ req.fn = "doJSON"
  /\ req.opts = <<WithAPICredentials("test-key", "")>>
  /\ "Api-Key" \in DOMAIN req.headers /\ req.headers["Api-Key"] = "test-key"
  /\ "Api-Secret" \notin DOMAIN req.headers

\* the server answered an operation with a status of 400 or more
Rejected == Sent /\ ~req.resp.failed /\ req.resp.status >= 400

\* the body is one JSON document whose "error" object has a message or a
\* description
ParsedError ==
  LET t == StripSpace(req.resp.data) IN
  Len(t) = 1 /\ t[1] \in {DocFull, DocDescOnly}

ParsedMessage == IF StripSpace(req.resp.data)[1] = DocFull THEN <<"msg">> ELSE << >>

\* C16 as stated: a status of 400 or more gives an *Error with that status
\* and no result or stream; Message and Description come from the body's
\* "error" object when it parses with a message or description, otherwise
\* Message is the body's text as it is.
C16_AsStated ==
  (Rejected /\ req.resp.readErr = NoErr) =>
     /\ req.out.kind = "Error"
     /\ req.out.error.StatusCode = req.resp.status
     /\ ParsedError =>
          /\ req.out.error.Message = ParsedMessage
          /\ req.out.error.Description = <<"desc">>
     /\ ~ParsedError => req.out.error.Message = req.resp.data

\* C16: a status of 400 or more gives an *Error with that status and the
\* body, and no result or stream; Message and Description come from the
\* body's "error" object when it parses with a message or description,
\* otherwise Message is the body's text without the white space around it;
\* when reading the body fails Message is the read error's text.
C16_ErrorFromResponse ==
  Rejected =>
     /\ req.out.kind = "Error"
     /\ req.out.error.StatusCode = req.resp.status
     /\ req.out.error.Body = req.resp.data
     /\ (req.resp.readErr = NoErr /\ ParsedError) =>
          /\ req.out.error.Message = ParsedMessage
          /\ req.out.error.Description = <<"desc">>
     /\ (req.resp.readErr = NoErr /\ ~ParsedError) =>
          /\ req.out.error.Message = TrimRight(TrimLeft(req.resp.data))
          /\ req.out.error.Description = << >>
     /\ req.resp.readErr # NoErr =>
          /\ req.out.error.Message = <<req.resp.readErr>>
          /\ req.out.error.Description = << >>

C16_Witness ==
  /\ Rejected /\ req.fn = "stream"
  /\ req.resp.status = 400 /\ req.resp.readErr = NoErr
  /\ req.resp.data = <<"text", Space>>
  /\ req.out.kind = "Error"
  /\ req.out.error.Message = <<"text">>

====
